---- MODULE Spec2Model ----
(***************************************************************************)
(* Katha story app: the URL authorization check, the shared-version chat   *)
(* quota and the assistant chat / one-shot assistance handlers of          *)
(* src/src/App.tsx, with the settings endpoint of src/server.ts.           *)
(*                                                                         *)
(* Strings are sequences of one-character strings, so that trimming,       *)
(* lower-casing, prefix tests, parseInt and toString are computed and not  *)
(* assumed.  A chat message text is a sequence of fragments (the pieces a  *)
(* template literal concatenates).                                         *)
(***************************************************************************)
EXTENDS Integers, Sequences, FiniteSets, TLC

\* ---------------------------------------------------------------- bounds

\* Longest transcript at which a further chat submit is still explored.
MaxMsgs == 3
\* Most chat calls one client may have in flight in the handler-level model.
MaxInFlight == 2
\* Longest draft content (in fragments) at which assistance is still explored.
MaxContent == 2
\* Longest free-form authorized URL drawn for the URL-matching harness.
MaxUrlLen == 3
\* Most likes a story may have on the server when a further like is still explored.
MaxLikes == 2
\* Most like requests one client may have in flight.
MaxLikeCalls == 2

\* ------------------------------------------------------------- constants

CHAT_LIMIT == 3

\* The browser tabs of the model.
Clients == {"t1", "t2"}

\* null / undefined (localStorage miss, response.text absent, err.message
\* absent): a value no string of one-character strings equals.
Missing == <<"<missing>">>
\* The number NaN, encoded as an integer no count equals.
NaN == 0 - 1

\* ---------------------------------------------------------------- strings

RECURSIVE StripTrailingSlashes(_)
\* url.replace(/\/+$/, "")
StripTrailingSlashes(s) ==
  IF Len(s) > 0 /\ s[Len(s)] = "/"
    THEN StripTrailingSlashes(SubSeq(s, 1, Len(s) - 1))
    ELSE s

\* One character of String.prototype.toLowerCase over the model's alphabet.
LowerChar(ch) ==
  CASE ch = "A" -> "a"
    [] ch = "E" -> "e"
    [] ch = "P" -> "p"
    [] ch = "R" -> "r"
    [] ch = "S" -> "s"
    [] OTHER -> ch

toLowerCase(s) == [i \in 1..Len(s) |-> LowerChar(s[i])]

\* One-character mutant: trailing slashes are kept.
normalize_NoStrip(url) == toLowerCase(url)

\* const normalize = (url) => url.replace(/\/+$/, "").toLowerCase();
normalize(url) == toLowerCase(StripTrailingSlashes(url))

\* String.prototype.startsWith
startsWith(s, p) == Len(p) <= Len(s) /\ SubSeq(s, 1, Len(p)) = p

\* String.prototype.includes
includes(s, sub) ==
  \E i \in 0..(Len(s) - Len(sub)) : SubSeq(s, i + 1, i + Len(sub)) = sub

IsSpace(ch) == ch = " "

RECURSIVE trimStart(_)
trimStart(s) ==
  IF Len(s) > 0 /\ IsSpace(s[1]) THEN trimStart(Tail(s)) ELSE s

RECURSIVE trimEnd(_)
trimEnd(s) ==
  IF Len(s) > 0 /\ IsSpace(s[Len(s)])
    THEN trimEnd(SubSeq(s, 1, Len(s) - 1))
    ELSE s

\* Mutant: nothing is trimmed.
trim_NoTrim(s) == s

\* String.prototype.trim
trim(s) == trimEnd(trimStart(s))

\* ---------------------------------------------------------------- numbers

Digits == <<"0", "1", "2", "3", "4", "5", "6", "7", "8", "9">>

IsDigit(ch) == \E d \in 1..10 : Digits[d] = ch

DigitValue(ch) == (CHOOSE d \in 1..10 : Digits[d] = ch) - 1

RECURSIVE DecimalOf(_)
DecimalOf(n) ==
  IF n < 10 THEN <<Digits[n + 1]>>
  ELSE Append(DecimalOf(n \div 10), Digits[(n % 10) + 1])

\* Number.prototype.toString, for a count or NaN
toString(n) == IF n = NaN THEN <<"N", "a", "N">> ELSE DecimalOf(n)

RECURSIVE LeadingDigits(_)
LeadingDigits(s) ==
  IF Len(s) > 0 /\ IsDigit(s[1]) THEN <<s[1]>> \o LeadingDigits(Tail(s)) ELSE <<>>

RECURSIVE ValueOfDigits(_)
ValueOfDigits(ds) ==
  IF Len(ds) = 0 THEN 0
  ELSE 10 * ValueOfDigits(SubSeq(ds, 1, Len(ds) - 1)) + DigitValue(ds[Len(ds)])

\* parseInt(s, 10): leading white space skipped, then the longest run of
\* digits; NaN when there is none.
parseInt(s) ==
  LET ds == LeadingDigits(trimStart(s))
  IN  IF Len(ds) = 0 THEN NaN ELSE ValueOfDigits(ds)

\* x + 1 on a number that may be NaN
PlusOne(x) == IF x = NaN THEN NaN ELSE x + 1

\* x >= y on numbers where x may be NaN (every comparison with NaN is false)
AtLeast(x, y) == x # NaN /\ x >= y

\* x < y on numbers where x may be NaN
Below(x, y) == x # NaN /\ x < y

\* ------------------------------------------------------------ deployments

Scheme == <<"s", ":", "/", "/">>

\* The owner's development host and the shared (preview) host.
DevHost == <<"d">>
SharedHost == <<"a", "-", "p", "r", "e", "-">>

\* window.location of a page served from `host` at `path`.
LocationAt(host, path) ==
  [hostname |-> host, origin |-> Scheme \o host, href |-> Scheme \o host \o path]

DevLocation == LocationAt(DevHost, <<"/">>)
SharedLocation == LocationAt(SharedHost, <<"/">>)

\* The shared origin as an owner might type it: upper case, trailing slash.
SharedUrlTyped == <<"S", ":", "/", "/", "A", "-", "P", "R", "E", "-", "/">>

\* Values of the settings input (tempUrl) the model types.
UrlInputs == {<<>>, SharedUrlTyped, DevLocation.origin}

\* const isSharedUrl = window.location.hostname.includes("-pre-");
isSharedUrlAt(loc) == includes(loc.hostname, <<"-", "p", "r", "e", "-">>)

\* Mutant: the owner shortcut is dropped.
isUrlAuthorizedFor_NoOwnerShortcut(shared, authUrl, loc) ==
  IF authUrl = <<>> THEN FALSE
  ELSE LET currentOrigin == normalize(loc.origin)
           targetUrl == normalize(authUrl)
       IN  currentOrigin = targetUrl \/ startsWith(toLowerCase(loc.href), targetUrl)

\* isUrlAuthorized, as a function of what it reads.
isUrlAuthorizedFor(shared, authUrl, loc) ==
  IF ~shared THEN TRUE
  ELSE IF authUrl = <<>> THEN FALSE
  ELSE LET currentOrigin == normalize(loc.origin)
           targetUrl == normalize(authUrl)
       IN  currentOrigin = targetUrl \/ startsWith(toLowerCase(loc.href), targetUrl)

\* ------------------------------------------------------------------ state

VARIABLES
  location,       \* per tab: window.location (hostname, origin, href)
  dbUrl,          \* server: settings row authorized_url
  localStorage,   \* per origin: value under "katha_chat_limit", or Missing
  authorizedUrl,  \* per tab: useState authorizedUrl
  tempUrl,        \* per tab: useState tempUrl
  isSettingsOpen, \* per tab: useState isSettingsOpen
  settingsFetch,  \* per tab: the GET /api/settings of fetchSettings in flight
  settingsSave,   \* per tab: the POST /api/settings of handleSaveSettings in flight
  chatMessages,   \* per tab: useState chatMessages
  chatInput,      \* per tab: useState chatInput
  isChatLoading,  \* per tab: useState isChatLoading
  messageCount,   \* per tab: useState messageCount
  chatCalls,      \* per tab: generateContent calls of handleSendMessage in flight
  title,          \* per tab: useState title
  content,        \* per tab: useState content
  isGenerating,   \* per tab: useState isGenerating
  genCalls,       \* per tab: generateContent calls of generateAIAssistance in flight
  dbLikes,        \* server: stories table, likes by story id
  stories,        \* per tab: useState stories
  storiesFetch,   \* per tab: the GET /api/stories of fetchStories in flight
  likeCalls       \* per tab: POST /api/stories/:id/like requests of handleLike in flight

serverVars == <<dbUrl>>
settingsVars == <<authorizedUrl, tempUrl, isSettingsOpen, settingsFetch, settingsSave>>
chatVars == <<chatMessages, chatInput, isChatLoading, messageCount, chatCalls>>
genVars == <<title, content, isGenerating, genCalls>>
storyVars == <<dbLikes, stories, storiesFetch, likeCalls>>
vars == <<location, dbUrl, localStorage, authorizedUrl, tempUrl, isSettingsOpen,
          settingsFetch, settingsSave, chatMessages, chatInput, isChatLoading,
          messageCount, chatCalls, title, content, isGenerating, genCalls,
          dbLikes, stories, storiesFetch, likeCalls>>

Origins == {DevLocation.origin, SharedLocation.origin}

\* no request in flight
NoRequest == [stage |-> "none", url |-> <<>>]

\* ------------------------------------------------------------- messages

UserMessage(text) == [role |-> "user", text |-> text]
AiMessage(text) == [role |-> "ai", text |-> text]

NotAuthorizedText ==
  <<"This URL is not authorized for AI features. Please configure the Authorized URL in settings (Owner only).">>
LimitReachedText ==
  <<"Limit reached. You can only send 3 messages to the Katha Assistant in the shared version.">>

\* Mutant: the error's detail is dropped.
ErrorMessageOf_Generic(message) == "Connection error"

\* err?.message || "Connection error"
ErrorMessageOf(message) ==
  IF message = Missing \/ message = <<>> THEN "Connection error" ELSE message[1]

\* `Sorry, I'm having trouble connecting: ${errorMessage}. Please try again.`
ChatErrorText(message) ==
  <<"Sorry, I'm having trouble connecting: ", ErrorMessageOf(message), ". Please try again.">>

\* "\n\n---\n*AI Suggestion:*\n" + aiText
SuggestionOf(aiText) == <<"\n\n---\n*AI Suggestion:*\n">> \o aiText

\* JavaScript truthiness of a string that may be null / undefined
Truthy(s) == s # Missing /\ s # <<>>

\* ----------------------------------------------------------------- inputs

\* What the user types into the chat input.
ChatInputs == {<<" ">>, <<" ", "h">>}
\* What the user types into the title field.
TitleInputs == {<<"T">>}
\* response.text of a resolved provider call.
ResponseTexts == {<<"ok">>, <<>>, Missing}
\* err.message of a rejected provider call.
ProviderErrors == {<<"timeout">>, Missing}
\* err.message of a localStorage.setItem that throws.
StorageError == <<"QuotaExceededError">>

\* ------------------------------------------------------------ derivations

isSharedUrl(c) == isSharedUrlAt(location[c])

\* const isUrlAuthorized = () => ...
isUrlAuthorized(c) == isUrlAuthorizedFor(isSharedUrl(c), authorizedUrl[c], location[c])

\* useState(() => { const saved = localStorage.getItem(...); return saved ? parseInt(saved, 10) : 0; })
LoadMessageCount(saved) == IF Truthy(saved) THEN parseInt(saved) ELSE 0

\* the key's value for the tab's origin
Stored(c) == localStorage[location[c].origin]

\* s without its i-th element
RemoveAt(s, i) == SubSeq(s, 1, i - 1) \o SubSeq(s, i + 1, Len(s))

\* ---------------------------------------------------------------- stories

\* The ids of the stories in the server's table.
StoryIds == {1, 2}

\* SELECT * FROM stories ORDER BY created_at DESC, as the list the client
\* receives: the later story (the higher id) first.
StoryList(likes) == <<[id |-> 2, likes |-> likes[2]], [id |-> 1, likes |-> likes[1]]>>

\* no GET /api/stories in flight
NoStoriesFetch == [stage |-> "none", data |-> <<>>]

\* The stories part of a freshly mounted App: an empty list, fetchStories
\* sent, no like in flight; the server's stories have no likes yet.
InitStories ==
  /\ dbLikes = [id \in StoryIds |-> 0]
  /\ stories = [c \in Clients |-> <<>>]
  /\ storiesFetch = [c \in Clients |-> [stage |-> "request", data |-> <<>>]]
  /\ likeCalls = [c \in Clients |-> <<>>]

\* ------------------------------------------------------------------- Init

\* A freshly mounted App component in a tab whose origin stores `saved`.
MountedCount(saved) == LoadMessageCount(saved)

\* The first tab is the owner's or a shared one; the second is a shared one.
InitLocations ==
  {f \in [Clients -> {DevLocation, SharedLocation}] : f["t2"] = SharedLocation}

Init ==
  /\ location \in InitLocations
  /\ dbUrl \in UrlInputs
  /\ localStorage = [o \in Origins |-> Missing]
  /\ authorizedUrl = [c \in Clients |-> <<>>]
  /\ tempUrl = [c \in Clients |-> <<>>]
  /\ isSettingsOpen = [c \in Clients |-> FALSE]
  /\ settingsFetch = [c \in Clients |-> [stage |-> "request", url |-> <<>>]]
  /\ settingsSave = [c \in Clients |-> NoRequest]
  /\ chatMessages = [c \in Clients |-> <<>>]
  /\ chatInput = [c \in Clients |-> <<>>]
  /\ isChatLoading = [c \in Clients |-> FALSE]
  /\ messageCount = [c \in Clients |-> MountedCount(Missing)]
  /\ chatCalls = [c \in Clients |-> <<>>]
  /\ title = [c \in Clients |-> <<>>]
  /\ content = [c \in Clients |-> <<>>]
  /\ isGenerating = [c \in Clients |-> FALSE]
  /\ genCalls = [c \in Clients |-> 0]
  /\ InitStories

\* --------------------------------------------------------------- settings

\* app.get("/api/settings"): the server answers the tab's GET.
ServerGetSettings(c) ==
  /\ settingsFetch[c].stage = "request"
  /\ settingsFetch' = [settingsFetch EXCEPT ![c] = [stage |-> "response", url |-> dbUrl]]
  /\ UNCHANGED <<storyVars, location, dbUrl, localStorage, authorizedUrl, tempUrl, isSettingsOpen,
                 settingsSave, chatVars, genVars>>

\* fetchSettings, after the awaits: if (data.authorized_url) { set both }
FetchSettingsDone(c) ==
  /\ settingsFetch[c].stage = "response"
  /\ LET url == settingsFetch[c].url
     IN  IF Truthy(url)
           THEN /\ authorizedUrl' = [authorizedUrl EXCEPT ![c] = url]
                /\ tempUrl' = [tempUrl EXCEPT ![c] = url]
           ELSE UNCHANGED <<authorizedUrl, tempUrl>>
  /\ settingsFetch' = [settingsFetch EXCEPT ![c] = NoRequest]
  /\ UNCHANGED <<storyVars, location, dbUrl, localStorage, isSettingsOpen, settingsSave,
                 chatVars, genVars>>

\* Mutant: a failed read authorizes the tab's own origin.
FetchSettingsFail_FailOpen(c) ==
  /\ settingsFetch[c].stage # "none"
  /\ settingsFetch' = [settingsFetch EXCEPT ![c] = NoRequest]
  /\ authorizedUrl' = [authorizedUrl EXCEPT ![c] = location[c].origin]
  /\ UNCHANGED <<storyVars, location, dbUrl, localStorage, tempUrl, isSettingsOpen,
                 settingsSave, chatVars, genVars>>

\* fetchSettings, catch: the request or its response fails; logged only.
FetchSettingsFail(c) ==
  /\ settingsFetch[c].stage # "none"
  /\ settingsFetch' = [settingsFetch EXCEPT ![c] = NoRequest]
  /\ UNCHANGED <<storyVars, location, dbUrl, localStorage, authorizedUrl, tempUrl, isSettingsOpen,
                 settingsSave, chatVars, genVars>>

\* The settings button, rendered only when !isSharedUrl.
OpenSettings(c) ==
  /\ ~isSharedUrl(c)
  /\ ~isSettingsOpen[c]
  /\ isSettingsOpen' = [isSettingsOpen EXCEPT ![c] = TRUE]
  /\ UNCHANGED <<storyVars, location, dbUrl, localStorage, authorizedUrl, tempUrl, settingsFetch,
                 settingsSave, chatVars, genVars>>

\* The modal's close button / backdrop.
CloseSettings(c) ==
  /\ isSettingsOpen[c]
  /\ isSettingsOpen' = [isSettingsOpen EXCEPT ![c] = FALSE]
  /\ UNCHANGED <<storyVars, location, dbUrl, localStorage, authorizedUrl, tempUrl, settingsFetch,
                 settingsSave, chatVars, genVars>>

\* The modal's URL input (onChange) and its "Use Current" button.
TypeTempUrl(c) ==
  /\ isSettingsOpen[c]
  /\ \E u \in UrlInputs \cup {location[c].origin} :
       /\ u # tempUrl[c]
       /\ tempUrl' = [tempUrl EXCEPT ![c] = u]
  /\ UNCHANGED <<storyVars, location, dbUrl, localStorage, authorizedUrl, isSettingsOpen,
                 settingsFetch, settingsSave, chatVars, genVars>>

\* handleSaveSettings up to its await: POST { authorized_url: tempUrl }.
\* One save per tab is in flight at a time.
handleSaveSettings(c) ==
  /\ isSettingsOpen[c]
  /\ settingsSave[c].stage = "none"
  /\ settingsSave' = [settingsSave EXCEPT ![c] = [stage |-> "request", url |-> tempUrl[c]]]
  /\ UNCHANGED <<storyVars, location, dbUrl, localStorage, authorizedUrl, tempUrl, isSettingsOpen,
                 settingsFetch, chatVars, genVars>>

\* app.post("/api/settings"): INSERT OR REPLACE, then { success: true }.
ServerPostSettings(c) ==
  /\ settingsSave[c].stage = "request"
  /\ dbUrl' = settingsSave[c].url
  /\ settingsSave' = [settingsSave EXCEPT ![c].stage = "response"]
  /\ UNCHANGED <<storyVars, location, localStorage, authorizedUrl, tempUrl, isSettingsOpen,
                 settingsFetch, chatVars, genVars>>

\* handleSaveSettings after the await, res.ok: setAuthorizedUrl(tempUrl) with the
\* tempUrl of the render that sent the request; the modal closes.
SaveSettingsDone(c) ==
  /\ settingsSave[c].stage = "response"
  /\ authorizedUrl' = [authorizedUrl EXCEPT ![c] = settingsSave[c].url]
  /\ isSettingsOpen' = [isSettingsOpen EXCEPT ![c] = FALSE]
  /\ settingsSave' = [settingsSave EXCEPT ![c] = NoRequest]
  /\ UNCHANGED <<storyVars, location, dbUrl, localStorage, tempUrl, settingsFetch, chatVars, genVars>>

\* handleSaveSettings: the request or its response fails, or !res.ok.
SaveSettingsFail(c) ==
  /\ settingsSave[c].stage # "none"
  /\ settingsSave' = [settingsSave EXCEPT ![c] = NoRequest]
  /\ UNCHANGED <<storyVars, location, dbUrl, localStorage, authorizedUrl, tempUrl, isSettingsOpen,
                 settingsFetch, chatVars, genVars>>

\* ------------------------------------------------------------------- chat

\* <input disabled={isSharedUrl && messageCount >= CHAT_LIMIT}>
ChatInputDisabled(c) == isSharedUrl(c) /\ AtLeast(messageCount[c], CHAT_LIMIT)

\* {isSharedUrl && messageCount >= CHAT_LIMIT && <p>Limit reached ...</p>}
LimitReachedShown(c) == isSharedUrl(c) /\ AtLeast(messageCount[c], CHAT_LIMIT)

\* Mutant: the remaining-messages line is rendered at every count.
RemainingShown_Always(c) == isSharedUrl(c)

\* {isSharedUrl && messageCount < CHAT_LIMIT && <p>... messages remaining</p>}
RemainingShown(c) == isSharedUrl(c) /\ Below(messageCount[c], CHAT_LIMIT)

\* {CHAT_LIMIT - messageCount}
RemainingFigure(c) == IF messageCount[c] = NaN THEN NaN ELSE CHAT_LIMIT - messageCount[c]

\* Mutant: the send button ignores isChatLoading.
SendDisabled_NoLoading(c) ==
  \/ trim(chatInput[c]) = <<>>
  \/ (isSharedUrl(c) /\ AtLeast(messageCount[c], CHAT_LIMIT))

\* <button type="submit" disabled={isChatLoading || !chatInput.trim() ||
\*                                  (isSharedUrl && messageCount >= CHAT_LIMIT)}>
SendDisabled(c) ==
  \/ isChatLoading[c]
  \/ trim(chatInput[c]) = <<>>
  \/ (isSharedUrl(c) /\ AtLeast(messageCount[c], CHAT_LIMIT))

\* The chat input's onChange.
TypeChatInput(c) ==
  /\ ~ChatInputDisabled(c)
  /\ \E v \in ChatInputs :
       /\ v # chatInput[c]
       /\ chatInput' = [chatInput EXCEPT ![c] = v]
  /\ UNCHANGED <<storyVars, location, serverVars, localStorage, settingsVars, chatMessages,
                 isChatLoading, messageCount, chatCalls, genVars>>

\* Mutant: the authorization check is missing.
handleSendMessage_NoAuthCheck(c) ==
  IF trim(chatInput[c]) = <<>> THEN
    UNCHANGED vars
  ELSE IF isSharedUrl(c) /\ AtLeast(messageCount[c], CHAT_LIMIT) THEN
    /\ chatMessages' = [chatMessages EXCEPT ![c] = Append(@, AiMessage(LimitReachedText))]
    /\ chatInput' = [chatInput EXCEPT ![c] = <<>>]
    /\ UNCHANGED <<storyVars, location, serverVars, localStorage, settingsVars, isChatLoading,
                   messageCount, chatCalls, genVars>>
  ELSE
    /\ chatMessages' = [chatMessages EXCEPT ![c] = Append(@, UserMessage(chatInput[c]))]
    /\ chatInput' = [chatInput EXCEPT ![c] = <<>>]
    /\ isChatLoading' = [isChatLoading EXCEPT ![c] = TRUE]
    /\ chatCalls' = [chatCalls EXCEPT ![c] =
         Append(@, [userMessage |-> chatInput[c], messageCount |-> messageCount[c]])]
    /\ UNCHANGED <<storyVars, location, serverVars, localStorage, settingsVars, messageCount, genVars>>

\* Mutant: the limit applies whether or not the URL is the shared one.
handleSendMessage_LimitInOwnerMode(c) ==
  IF trim(chatInput[c]) = <<>> THEN
    UNCHANGED vars
  ELSE IF ~isUrlAuthorized(c) THEN
    /\ chatMessages' = [chatMessages EXCEPT ![c] = Append(@, AiMessage(NotAuthorizedText))]
    /\ chatInput' = [chatInput EXCEPT ![c] = <<>>]
    /\ UNCHANGED <<storyVars, location, serverVars, localStorage, settingsVars, isChatLoading,
                   messageCount, chatCalls, genVars>>
  ELSE IF AtLeast(messageCount[c], CHAT_LIMIT) THEN
    /\ chatMessages' = [chatMessages EXCEPT ![c] = Append(@, AiMessage(LimitReachedText))]
    /\ chatInput' = [chatInput EXCEPT ![c] = <<>>]
    /\ UNCHANGED <<storyVars, location, serverVars, localStorage, settingsVars, isChatLoading,
                   messageCount, chatCalls, genVars>>
  ELSE
    /\ chatMessages' = [chatMessages EXCEPT ![c] = Append(@, UserMessage(chatInput[c]))]
    /\ chatInput' = [chatInput EXCEPT ![c] = <<>>]
    /\ isChatLoading' = [isChatLoading EXCEPT ![c] = TRUE]
    /\ chatCalls' = [chatCalls EXCEPT ![c] =
         Append(@, [userMessage |-> chatInput[c], messageCount |-> messageCount[c]])]
    /\ UNCHANGED <<storyVars, location, serverVars, localStorage, settingsVars, messageCount, genVars>>

\* handleSendMessage up to its await.  The call in flight keeps what the
\* closure captured: userMessage and the messageCount of that render.
handleSendMessage(c) ==
  IF trim(chatInput[c]) = <<>> THEN
    UNCHANGED vars
  ELSE IF ~isUrlAuthorized(c) THEN
    /\ chatMessages' = [chatMessages EXCEPT ![c] = Append(@, AiMessage(NotAuthorizedText))]
    /\ chatInput' = [chatInput EXCEPT ![c] = <<>>]
    /\ UNCHANGED <<storyVars, location, serverVars, localStorage, settingsVars, isChatLoading,
                   messageCount, chatCalls, genVars>>
  ELSE IF isSharedUrl(c) /\ AtLeast(messageCount[c], CHAT_LIMIT) THEN
    /\ chatMessages' = [chatMessages EXCEPT ![c] = Append(@, AiMessage(LimitReachedText))]
    /\ chatInput' = [chatInput EXCEPT ![c] = <<>>]
    /\ UNCHANGED <<storyVars, location, serverVars, localStorage, settingsVars, isChatLoading,
                   messageCount, chatCalls, genVars>>
  ELSE
    /\ chatMessages' = [chatMessages EXCEPT ![c] = Append(@, UserMessage(chatInput[c]))]
    /\ chatInput' = [chatInput EXCEPT ![c] = <<>>]
    /\ isChatLoading' = [isChatLoading EXCEPT ![c] = TRUE]
    /\ chatCalls' = [chatCalls EXCEPT ![c] =
         Append(@, [userMessage |-> chatInput[c], messageCount |-> messageCount[c]])]
    /\ UNCHANGED <<storyVars, location, serverVars, localStorage, settingsVars, messageCount, genVars>>

\* What bounds the exploration of chat submits.
ChatWithinBounds(c) ==
  /\ Len(chatMessages[c]) < MaxMsgs
  /\ Len(chatCalls[c]) < MaxInFlight

\* A submit event on the chat form, whatever the state of its controls.
SubmitChat(c) ==
  /\ ChatWithinBounds(c)
  /\ handleSendMessage(c)

\* A submit through the rendered controls: the send button, or Enter in the
\* input (implicit submission clicks the default button), neither of which
\* acts while the button is disabled.
ClickSend(c) ==
  /\ ~SendDisabled(c)
  /\ ChatWithinBounds(c)
  /\ handleSendMessage(c)

\* Mutant: the increment is applied to the count current at resolution
\* (setMessageCount(prev => prev + 1)), not to the one captured at dispatch.
ChatResolved_FromCurrent(c, i, aiText, writeOk) ==
  LET call == chatCalls[c][i]
      newCount == PlusOne(messageCount[c])
  IN  /\ chatCalls' = [chatCalls EXCEPT ![c] = RemoveAt(@, i)]
      /\ isChatLoading' = [isChatLoading EXCEPT ![c] = FALSE]
      /\ IF ~Truthy(aiText) THEN
           UNCHANGED <<chatMessages, messageCount, localStorage>>
         ELSE IF ~isSharedUrl(c) THEN
           /\ chatMessages' = [chatMessages EXCEPT ![c] = Append(@, AiMessage(aiText))]
           /\ UNCHANGED <<messageCount, localStorage>>
         ELSE IF writeOk THEN
           /\ chatMessages' = [chatMessages EXCEPT ![c] = Append(@, AiMessage(aiText))]
           /\ messageCount' = [messageCount EXCEPT ![c] = newCount]
           /\ localStorage' = [localStorage EXCEPT ![location[c].origin] = toString(newCount)]
         ELSE
           \* setItem throws after setMessageCount: the catch block runs
           /\ chatMessages' = [chatMessages EXCEPT ![c] =
                Append(Append(@, AiMessage(aiText)), AiMessage(ChatErrorText(StorageError)))]
           /\ messageCount' = [messageCount EXCEPT ![c] = newCount]
           /\ UNCHANGED localStorage
      /\ UNCHANGED <<storyVars, location, serverVars, settingsVars, chatInput, genVars>>

\* handleSendMessage after the await, the call having resolved with
\* response.text = aiText; writeOk: localStorage.setItem does not throw.
ChatResolved(c, i, aiText, writeOk) ==
  LET call == chatCalls[c][i]
      newCount == PlusOne(call.messageCount)
  IN  /\ chatCalls' = [chatCalls EXCEPT ![c] = RemoveAt(@, i)]
      /\ isChatLoading' = [isChatLoading EXCEPT ![c] = FALSE]
      /\ IF ~Truthy(aiText) THEN
           UNCHANGED <<chatMessages, messageCount, localStorage>>
         ELSE IF ~isSharedUrl(c) THEN
           /\ chatMessages' = [chatMessages EXCEPT ![c] = Append(@, AiMessage(aiText))]
           /\ UNCHANGED <<messageCount, localStorage>>
         ELSE IF writeOk THEN
           /\ chatMessages' = [chatMessages EXCEPT ![c] = Append(@, AiMessage(aiText))]
           /\ messageCount' = [messageCount EXCEPT ![c] = newCount]
           /\ localStorage' = [localStorage EXCEPT ![location[c].origin] = toString(newCount)]
         ELSE
           \* setItem throws after setMessageCount: the catch block runs
           /\ chatMessages' = [chatMessages EXCEPT ![c] =
                Append(Append(@, AiMessage(aiText)), AiMessage(ChatErrorText(StorageError)))]
           /\ messageCount' = [messageCount EXCEPT ![c] = newCount]
           /\ UNCHANGED localStorage
      /\ UNCHANGED <<storyVars, location, serverVars, settingsVars, chatInput, genVars>>

\* The provider answers one of the tab's chat calls; localStorage.setItem may
\* throw (storage full or refused).
ChatResolve(c) ==
  \E i \in 1..Len(chatCalls[c]) :
    \E aiText \in ResponseTexts :
      \E writeOk \in (IF isSharedUrl(c) /\ Truthy(aiText) THEN BOOLEAN ELSE {TRUE}) :
        ChatResolved(c, i, aiText, writeOk)

\* The same with a localStorage that accepts every write.
ChatResolveStored(c) ==
  \E i \in 1..Len(chatCalls[c]) :
    \E aiText \in ResponseTexts :
      ChatResolved(c, i, aiText, TRUE)

\* Mutant: the error message is put at the head of the transcript.
ChatRejected_Prepend(c, i, message) ==
  /\ chatCalls' = [chatCalls EXCEPT ![c] = RemoveAt(@, i)]
  /\ chatMessages' = [chatMessages EXCEPT ![c] = <<AiMessage(ChatErrorText(message))>> \o @]
  /\ isChatLoading' = [isChatLoading EXCEPT ![c] = FALSE]
  /\ UNCHANGED <<storyVars, location, serverVars, localStorage, settingsVars, chatInput,
                 messageCount, genVars>>

\* Mutant: a rejected call is sent again after the error message.
ChatRejected_Retry(c, i, message) ==
  /\ chatMessages' = [chatMessages EXCEPT ![c] = Append(@, AiMessage(ChatErrorText(message)))]
  /\ UNCHANGED <<storyVars, location, serverVars, localStorage, settingsVars, chatInput,
                 isChatLoading, messageCount, chatCalls, genVars>>

\* Mutant: no finally block, isChatLoading stays set after a rejection.
ChatRejected_NoFinally(c, i, message) ==
  /\ chatCalls' = [chatCalls EXCEPT ![c] = RemoveAt(@, i)]
  /\ chatMessages' = [chatMessages EXCEPT ![c] = Append(@, AiMessage(ChatErrorText(message)))]
  /\ UNCHANGED <<storyVars, location, serverVars, localStorage, settingsVars, chatInput,
                 isChatLoading, messageCount, genVars>>

\* handleSendMessage, catch and finally: the tab's i-th call in flight rejects
\* with err.message = message.
ChatRejected(c, i, message) ==
  /\ chatCalls' = [chatCalls EXCEPT ![c] = RemoveAt(@, i)]
  /\ chatMessages' = [chatMessages EXCEPT ![c] = Append(@, AiMessage(ChatErrorText(message)))]
  /\ isChatLoading' = [isChatLoading EXCEPT ![c] = FALSE]
  /\ UNCHANGED <<storyVars, location, serverVars, localStorage, settingsVars, chatInput,
                 messageCount, genVars>>

\* The provider call of one of the tab's chat turns fails.
ChatReject(c) ==
  \E i \in 1..Len(chatCalls[c]) :
    \E message \in ProviderErrors :
      ChatRejected(c, i, message)

\* ---------------------------------------------------- one-shot assistance

\* <button onClick={generateAIAssistance} disabled={isGenerating || (!title && !content)}>
GenerateDisabled(c) == isGenerating[c] \/ (title[c] = <<>> /\ content[c] = <<>>)

\* The title field's onChange.
TypeTitle(c) ==
  /\ \E v \in TitleInputs \cup {<<>>} :
       /\ v # title[c]
       /\ title' = [title EXCEPT ![c] = v]
  /\ UNCHANGED <<storyVars, location, serverVars, localStorage, settingsVars, chatVars, content,
                 isGenerating, genCalls>>

\* generateAIAssistance up to its await (the alert of the unauthorized
\* branch changes no state).
generateAIAssistance(c) ==
  IF title[c] = <<>> /\ content[c] = <<>> THEN
    UNCHANGED vars
  ELSE IF ~isUrlAuthorized(c) THEN
    UNCHANGED vars
  ELSE
    /\ isGenerating' = [isGenerating EXCEPT ![c] = TRUE]
    /\ genCalls' = [genCalls EXCEPT ![c] = @ + 1]
    /\ UNCHANGED <<storyVars, location, serverVars, localStorage, settingsVars, chatVars, title, content>>

\* A click on the "Get AI Help" button; a disabled button takes no click.
ClickGenerate(c) ==
  /\ ~GenerateDisabled(c)
  /\ Len(content[c]) < MaxContent
  /\ generateAIAssistance(c)

\* generateAIAssistance after the await: if (aiText) setContent(prev => prev + ...)
GenerateResolve(c) ==
  /\ genCalls[c] > 0
  /\ \E aiText \in ResponseTexts :
       IF Truthy(aiText)
         THEN content' = [content EXCEPT ![c] = @ \o SuggestionOf(aiText)]
         ELSE UNCHANGED content
  /\ isGenerating' = [isGenerating EXCEPT ![c] = FALSE]
  /\ genCalls' = [genCalls EXCEPT ![c] = @ - 1]
  /\ UNCHANGED <<storyVars, location, serverVars, localStorage, settingsVars, chatVars, title>>

\* generateAIAssistance, catch: console.error and an alert; finally as above.
GenerateReject(c) ==
  /\ genCalls[c] > 0
  /\ isGenerating' = [isGenerating EXCEPT ![c] = FALSE]
  /\ genCalls' = [genCalls EXCEPT ![c] = @ - 1]
  /\ UNCHANGED <<storyVars, location, serverVars, localStorage, settingsVars, chatVars, title, content>>

\* ------------------------------------------------------------------ likes

\* app.get("/api/stories"): the server answers the tab's GET.
ServerGetStories(c) ==
  /\ storiesFetch[c].stage = "request"
  /\ storiesFetch' = [storiesFetch EXCEPT ![c] = [stage |-> "response", data |-> StoryList(dbLikes)]]
  /\ UNCHANGED <<location, serverVars, localStorage, settingsVars, chatVars, genVars,
                 dbLikes, stories, likeCalls>>

\* fetchStories, after the awaits: setStories(data)
FetchStoriesDone(c) ==
  /\ storiesFetch[c].stage = "response"
  /\ stories' = [stories EXCEPT ![c] = storiesFetch[c].data]
  /\ storiesFetch' = [storiesFetch EXCEPT ![c] = NoStoriesFetch]
  /\ UNCHANGED <<location, serverVars, localStorage, settingsVars, chatVars, genVars,
                 dbLikes, likeCalls>>

\* fetchStories, catch: the request or its response fails; logged only.
FetchStoriesFail(c) ==
  /\ storiesFetch[c].stage # "none"
  /\ storiesFetch' = [storiesFetch EXCEPT ![c] = NoStoriesFetch]
  /\ UNCHANGED <<location, serverVars, localStorage, settingsVars, chatVars, genVars,
                 dbLikes, stories, likeCalls>>

\* handleLike(id) up to its await, from the like button of a displayed story.
\* The request in flight keeps the `stories` of the render whose handler ran.
handleLike(c, id) ==
  /\ \E k \in 1..Len(stories[c]) : stories[c][k].id = id
  /\ Len(likeCalls[c]) < MaxLikeCalls
  /\ dbLikes[id] < MaxLikes
  /\ likeCalls' = [likeCalls EXCEPT ![c] =
       Append(@, [id |-> id, stories |-> stories[c], stage |-> "request",
                  updatedStory |-> [id |-> id, likes |-> 0]])]
  /\ UNCHANGED <<location, serverVars, localStorage, settingsVars, chatVars, genVars,
                 dbLikes, stories, storiesFetch>>

\* A click on the like button of one of the displayed stories.
ClickLike(c) == \E id \in StoryIds : handleLike(c, id)

\* app.post("/api/stories/:id/like"): likes = likes + 1, then the updated row.
ServerLike(c) ==
  \E k \in 1..Len(likeCalls[c]) :
    LET id == likeCalls[c][k].id
    IN  /\ likeCalls[c][k].stage = "request"
        /\ dbLikes' = [dbLikes EXCEPT ![id] = @ + 1]
        /\ likeCalls' = [likeCalls EXCEPT ![c][k].stage = "response",
                                          ![c][k].updatedStory = [id |-> id, likes |-> dbLikes[id] + 1]]
        /\ UNCHANGED <<location, serverVars, localStorage, settingsVars, chatVars, genVars,
                       stories, storiesFetch>>

\* handleLike after the awaits, res.ok, for the tab's k-th request in flight:
\* setStories(stories.map(s => s.id === id ? updatedStory : s)) on the
\* captured list.
LikeDone(c, k) ==
  LET call == likeCalls[c][k]
  IN  /\ call.stage = "response"
      /\ stories' = [stories EXCEPT ![c] =
           [j \in 1..Len(call.stories) |->
              IF call.stories[j].id = call.id THEN call.updatedStory ELSE call.stories[j]]]
      /\ likeCalls' = [likeCalls EXCEPT ![c] = RemoveAt(@, k)]
      /\ UNCHANGED <<location, serverVars, localStorage, settingsVars, chatVars, genVars,
                     dbLikes, storiesFetch>>

\* One of the tab's like responses arrives.
LikeResponse(c) == \E k \in 1..Len(likeCalls[c]) : LikeDone(c, k)

\* handleLike: the request or its response fails, or !res.ok.
LikeFail(c) ==
  \E k \in 1..Len(likeCalls[c]) :
    /\ likeCalls' = [likeCalls EXCEPT ![c] = RemoveAt(@, k)]
    /\ UNCHANGED <<location, serverVars, localStorage, settingsVars, chatVars, genVars,
                   dbLikes, stories, storiesFetch>>

\* ----------------------------------------------------------------- reload

\* The tab reloads: the component mounts afresh (every useState back to its
\* initial value, messageCount read from localStorage, fetchSettings sent) and
\* the old page's pending promises never settle.  A save and the likes already
\* sent may or may not still reach the server.
Reload(c) ==
  /\ authorizedUrl' = [authorizedUrl EXCEPT ![c] = <<>>]
  /\ tempUrl' = [tempUrl EXCEPT ![c] = <<>>]
  /\ isSettingsOpen' = [isSettingsOpen EXCEPT ![c] = FALSE]
  /\ settingsFetch' = [settingsFetch EXCEPT ![c] = [stage |-> "request", url |-> <<>>]]
  /\ settingsSave' = [settingsSave EXCEPT ![c] = NoRequest]
  /\ \/ UNCHANGED dbUrl
     \/ /\ settingsSave[c].stage = "request"
        /\ dbUrl' = settingsSave[c].url
  /\ chatMessages' = [chatMessages EXCEPT ![c] = <<>>]
  /\ chatInput' = [chatInput EXCEPT ![c] = <<>>]
  /\ isChatLoading' = [isChatLoading EXCEPT ![c] = FALSE]
  /\ messageCount' = [messageCount EXCEPT ![c] = MountedCount(Stored(c))]
  /\ chatCalls' = [chatCalls EXCEPT ![c] = <<>>]
  /\ title' = [title EXCEPT ![c] = <<>>]
  /\ content' = [content EXCEPT ![c] = <<>>]
  /\ isGenerating' = [isGenerating EXCEPT ![c] = FALSE]
  /\ genCalls' = [genCalls EXCEPT ![c] = 0]
  /\ stories' = [stories EXCEPT ![c] = <<>>]
  /\ storiesFetch' = [storiesFetch EXCEPT ![c] = [stage |-> "request", data |-> <<>>]]
  /\ likeCalls' = [likeCalls EXCEPT ![c] = <<>>]
  /\ \E reached \in SUBSET {k \in 1..Len(likeCalls[c]) : likeCalls[c][k].stage = "request"} :
       dbLikes' = [id \in StoryIds |->
                    dbLikes[id] + Cardinality({k \in reached : likeCalls[c][k].id = id})]
  /\ UNCHANGED <<location, localStorage>>

\* ------------------------------------------------------------------- Next

\* fetchSettings and the server's answer.
SettingsRead(c) ==
  \/ ServerGetSettings(c)
  \/ FetchSettingsDone(c)
  \/ FetchSettingsFail(c)

\* The owner's settings modal and handleSaveSettings.
SettingsWrite(c) ==
  \/ OpenSettings(c)
  \/ CloseSettings(c)
  \/ TypeTempUrl(c)
  \/ handleSaveSettings(c)
  \/ ServerPostSettings(c)
  \/ SaveSettingsDone(c)
  \/ SaveSettingsFail(c)

\* The chat besides the submit itself.
ChatTurn(c) ==
  \/ TypeChatInput(c)
  \/ ChatResolve(c)
  \/ ChatReject(c)

\* The editor's one-shot assistance.
Assistance(c) ==
  \/ TypeTitle(c)
  \/ ClickGenerate(c)
  \/ GenerateResolve(c)
  \/ GenerateReject(c)

\* One tab (the owner's or a shared one) driven through its rendered controls;
\* the other tab stays idle.
Next ==
  \/ ClickSend("t1")
  \/ ChatTurn("t1")
  \/ Assistance("t1")
  \/ SettingsRead("t1")
  \/ SettingsWrite("t1")
  \/ Reload("t1")

Spec == Init /\ [][Next]_vars

\* The chat of that tab alone, through its rendered controls.
NextChat ==
  \/ ClickSend("t1")
  \/ ChatTurn("t1")
  \/ SettingsRead("t1")
  \/ SettingsWrite("t1")
  \/ Reload("t1")

SpecChat == Init /\ [][NextChat]_vars

\* The same, every provider call in flight eventually resolving or rejecting:
\* the continuation of handleSendMessage after its await runs once the
\* promise settles.
SpecLive ==
  /\ Init
  /\ [][NextChat]_vars
  /\ WF_vars(ChatResolve("t1") \/ ChatReject("t1"))

\* The chat of the same tab with the form's submit event delivered in any state of
\* its controls (form.requestSubmit(), a user agent that submits past a
\* disabled default button): handleSendMessage's own checks decide.
NextHandler ==
  \/ SubmitChat("t1")
  \/ ChatTurn("t1")
  \/ SettingsRead("t1")
  \/ SettingsWrite("t1")
  \/ Reload("t1")

SpecHandler == Init /\ [][NextHandler]_vars

\* Two tabs of the shared deployment, sharing one localStorage that accepts
\* every write, both chatting; the authorized URL is already configured on
\* the server.
InitTabs ==
  /\ Init
  /\ location["t1"] = SharedLocation
  /\ dbUrl = SharedUrlTyped

NextTabs ==
  \E c \in Clients :
    \/ ClickSend(c)
    \/ TypeChatInput(c)
    \/ ChatResolveStored(c)
    \/ ChatReject(c)
    \/ SettingsRead(c)
    \/ Reload(c)

SpecTabs == InitTabs /\ [][NextTabs]_vars

\* ------------------------------------- the owner reconfigures, a guest chats

\* The owner's tab and a tab of the shared deployment, both mounted and with
\* their settings loaded; the shared origin is the authorized URL.
InitConfig ==
  /\ location = [c \in Clients |-> IF c = "t1" THEN DevLocation ELSE SharedLocation]
  /\ dbUrl = SharedUrlTyped
  /\ localStorage = [o \in Origins |-> Missing]
  /\ authorizedUrl = [c \in Clients |-> SharedUrlTyped]
  /\ tempUrl = [c \in Clients |-> SharedUrlTyped]
  /\ isSettingsOpen = [c \in Clients |-> FALSE]
  /\ settingsFetch = [c \in Clients |-> NoRequest]
  /\ settingsSave = [c \in Clients |-> NoRequest]
  /\ chatMessages = [c \in Clients |-> <<>>]
  /\ chatInput = [c \in Clients |-> <<>>]
  /\ isChatLoading = [c \in Clients |-> FALSE]
  /\ messageCount = [c \in Clients |-> MountedCount(Missing)]
  /\ chatCalls = [c \in Clients |-> <<>>]
  /\ title = [c \in Clients |-> <<>>]
  /\ content = [c \in Clients |-> <<>>]
  /\ isGenerating = [c \in Clients |-> FALSE]
  /\ genCalls = [c \in Clients |-> 0]
  /\ InitStories

\* The owner changes the settings while the shared tab chats, and reloads.
NextConfig ==
  \/ SettingsWrite("t1")
  \/ ClickSend("t2")
  \/ ChatTurn("t2")
  \/ SettingsRead("t2")
  \/ Reload("t2")

SpecConfig == InitConfig /\ [][NextConfig]_vars

\* --------------------------------------------- storage left by earlier use

\* What the tab's origin may hold under "katha_chat_limit" when the page
\* loads: nothing, the empty string, counts below, at and above the limit,
\* and a value that is no number.
StoredInputs == {Missing, <<>>, <<"2">>, <<"3">>, <<"5">>, <<"x">>}

\* The tab (the owner's or a shared one) mounts on such a storage; the
\* authorized URL is already configured on the server.
InitStored ==
  /\ location \in InitLocations
  /\ dbUrl = SharedUrlTyped
  /\ localStorage \in
       {[o \in Origins |-> IF o = location["t1"].origin THEN v ELSE Missing] :
          v \in StoredInputs}
  /\ authorizedUrl = [c \in Clients |-> <<>>]
  /\ tempUrl = [c \in Clients |-> <<>>]
  /\ isSettingsOpen = [c \in Clients |-> FALSE]
  /\ settingsFetch = [c \in Clients |-> [stage |-> "request", url |-> <<>>]]
  /\ settingsSave = [c \in Clients |-> NoRequest]
  /\ chatMessages = [c \in Clients |-> <<>>]
  /\ chatInput = [c \in Clients |-> <<>>]
  /\ isChatLoading = [c \in Clients |-> FALSE]
  /\ messageCount = [c \in Clients |-> MountedCount(Stored(c))]
  /\ chatCalls = [c \in Clients |-> <<>>]
  /\ title = [c \in Clients |-> <<>>]
  /\ content = [c \in Clients |-> <<>>]
  /\ isGenerating = [c \in Clients |-> FALSE]
  /\ genCalls = [c \in Clients |-> 0]
  /\ InitStories

\* The chat of that tab, the submit event delivered in any state of the
\* controls.
NextStored ==
  \/ SubmitChat("t1")
  \/ ChatTurn("t1")
  \/ SettingsRead("t1")
  \/ Reload("t1")

SpecStored == InitStored /\ [][NextStored]_vars

\* ------------------------------------------- chat and assistance together

\* The chat, its submit event delivered in any state of the controls, and the
\* editor's one-shot assistance of one tab; the shared origin is the
\* authorized URL.
InitRequests ==
  /\ Init
  /\ dbUrl = SharedUrlTyped

NextRequests ==
  \/ SubmitChat("t1")
  \/ ChatTurn("t1")
  \/ Assistance("t1")
  \/ SettingsRead("t1")
  \/ Reload("t1")

SpecRequests == InitRequests /\ [][NextRequests]_vars

\* ------------------------------------------------------ the story list

\* One tab loads the stories and likes them.
NextLikes ==
  \/ ServerGetStories("t1")
  \/ FetchStoriesDone("t1")
  \/ FetchStoriesFail("t1")
  \/ ClickLike("t1")
  \/ ServerLike("t1")
  \/ LikeResponse("t1")
  \/ LikeFail("t1")
  \/ Reload("t1")

SpecLikes == Init /\ [][NextLikes]_vars

\* ------------------------------------------------- URL-matching harness

\* An owner host whose name holds "pre-" but not the marker "-pre-".
NearHost == <<"p", "r", "e", "-", "d">>

\* Where the probed tab may be served from.
ProbeLocations ==
  {LocationAt(h, p) : h \in {DevHost, NearHost, SharedHost}, p \in {<<"/">>, <<"/", "A">>}}

UrlAlphabet == {"s", "S", ":", "/", "a"}

\* Every string over UrlAlphabet of length at most n.
ShortUrls(n) == UNION {[1..k -> UrlAlphabet] : k \in 0..n}

\* Authorized URLs near the shared origin: exact, other case, trailing
\* slashes, with a path, cut short, extended, and another origin.
NearUrls ==
  LET o == SharedLocation.origin
  IN  { o, SharedUrlTyped, o \o <<"/", "/">>, o \o <<"/", "a">>, o \o <<"/", "A", "/">>,
        o \o <<"/", "a", "a">>, SubSeq(o, 1, Len(o) - 1), o \o <<"a">>,
        DevLocation.origin, <<"/">> \o o }

\* The authorized URLs the harness stores on the server.
ProbeUrls == ShortUrls(MaxUrlLen) \cup NearUrls

\* A tab served from any probe location, the server holding any probe URL.
InitUrl ==
  /\ location \in {f \in [Clients -> ProbeLocations] : f["t2"] = SharedLocation}
  /\ dbUrl \in ProbeUrls
  /\ localStorage = [o \in {l.origin : l \in ProbeLocations} |-> Missing]
  /\ authorizedUrl = [c \in Clients |-> <<>>]
  /\ tempUrl = [c \in Clients |-> <<>>]
  /\ isSettingsOpen = [c \in Clients |-> FALSE]
  /\ settingsFetch = [c \in Clients |-> [stage |-> "request", url |-> <<>>]]
  /\ settingsSave = [c \in Clients |-> NoRequest]
  /\ chatMessages = [c \in Clients |-> <<>>]
  /\ chatInput = [c \in Clients |-> <<>>]
  /\ isChatLoading = [c \in Clients |-> FALSE]
  /\ messageCount = [c \in Clients |-> MountedCount(Missing)]
  /\ chatCalls = [c \in Clients |-> <<>>]
  /\ title = [c \in Clients |-> <<>>]
  /\ content = [c \in Clients |-> <<>>]
  /\ isGenerating = [c \in Clients |-> FALSE]
  /\ genCalls = [c \in Clients |-> 0]
  /\ InitStories

\* The tab loads the settings and sends chat messages, each submit deciding
\* on isUrlAuthorized.
NextUrl ==
  \/ SettingsRead("t1")
  \/ TypeChatInput("t1")
  \/ ClickSend("t1")

SpecUrl == InitUrl /\ [][NextUrl]_vars

\* ================================================================= claims

\* The last message of the tab's transcript, if any, is m.
LastMessageIs(c, m) ==
  Len(chatMessages[c]) > 0 /\ chatMessages[c][Len(chatMessages[c])] = m

\* This step puts a chat call of tab c in flight.
ChatDispatched(c) == Len(chatCalls'[c]) > Len(chatCalls[c])

\* This step puts a one-shot assistance call of tab c in flight.
AssistanceDispatched(c) == genCalls'[c] > genCalls[c]

\* --- normalization as the specification words it ---

\* Upper-case letters of the alphabet with their lower-case forms.
CasePairs == {<<"A", "a">>, <<"E", "e">>, <<"P", "p">>, <<"R", "r">>, <<"S", "s">>}

SpecLower(ch) ==
  IF \E p \in CasePairs : p[1] = ch THEN (CHOOSE p \in CasePairs : p[1] = ch)[2] ELSE ch

\* Length of s without its trailing run of "/".
SpecCoreLen(s) ==
  CHOOSE k \in 0..Len(s) :
    /\ k = 0 \/ s[k] # "/"
    /\ \A j \in (k + 1)..Len(s) : s[j] = "/"

\* s with all trailing "/" stripped, lower-cased.
SpecNormalized(s) == [i \in 1..SpecCoreLen(s) |-> SpecLower(s[i])]

\* p is a prefix of s
SpecPrefix(p, s) == Len(p) <= Len(s) /\ \A i \in 1..Len(p) : s[i] = p[i]

\* The hostname carries the shared/preview marker "-pre-".
SpecRestricted(loc) ==
  LET h == loc.hostname
  IN  \E i \in 1..(Len(h) - 4) :
        h[i] = "-" /\ h[i + 1] = "p" /\ h[i + 2] = "r" /\ h[i + 3] = "e" /\ h[i + 4] = "-"

\* C2: in Restricted mode isUrlAuthorized is true exactly when the authorized
\* URL A is non-empty and normalized(origin) = normalized(A) or the lower-cased
\* href starts with normalized(A); it is false whenever A is empty.
C2_RestrictedMatch ==
  \A c \in Clients :
    SpecRestricted(location[c]) =>
      LET A == authorizedUrl[c]
          O == location[c].origin
          H == location[c].href
      IN  isUrlAuthorized(c) <=>
            /\ A # <<>>
            /\ \/ SpecNormalized(O) = SpecNormalized(A)
               \/ SpecPrefix(SpecNormalized(A), [i \in 1..Len(H) |-> SpecLower(H[i])])

\* C2 witness: a shared tab whose loaded authorized URL is the origin in upper
\* case with a trailing slash has been authorized and has a chat call in flight.
C2_Witness ==
  /\ SpecRestricted(location["t1"])
  /\ authorizedUrl["t1"] = SharedUrlTyped
  /\ isUrlAuthorized("t1")
  /\ Len(chatCalls["t1"]) = 1

\* C3: in Owner mode (no marker in the hostname) isUrlAuthorized is true for
\* every current URL and every configured URL, the empty one included, so no
\* chat submit is ever answered with the not-authorized message.
C3_OwnerAlwaysAuthorized ==
  \A c \in Clients :
    ~SpecRestricted(location[c]) =>
      /\ isUrlAuthorized(c)
      /\ \A i \in 1..Len(chatMessages[c]) : chatMessages[c][i] # AiMessage(NotAuthorizedText)

\* C3 witness: an owner tab whose host name holds "pre-" has loaded an empty
\* configuration and has a chat call in flight.
C3_Witness ==
  /\ location["t1"].hostname = NearHost
  /\ dbUrl = <<>>
  /\ settingsFetch["t1"].stage = "none"
  /\ authorizedUrl["t1"] = <<>>
  /\ Len(chatCalls["t1"]) = 1

\* C1: no call to the AI provider is dispatched, by a chat turn or by the
\* one-shot assistance, unless isUrlAuthorized is true at dispatch and, in
\* Restricted mode, the quota count is below the limit.
C1_DispatchGated ==
  [][\A c \in Clients :
       (ChatDispatched(c) \/ AssistanceDispatched(c)) =>
         /\ isUrlAuthorized(c)
         /\ isSharedUrl(c) => Below(messageCount[c], CHAT_LIMIT)]_vars

\* The count stored for origin o, as a mounting tab reads it.
StoredCount(o) == LoadMessageCount(localStorage[o])

\* C4: in Restricted mode the quota is exhausted once the count has reached
\* the limit, and once exhausted it stays exhausted in every later state.
C4_ExhaustedForever ==
  [][\A c \in Clients :
       (isSharedUrl(c) /\ AtLeast(messageCount[c], CHAT_LIMIT)) =>
         AtLeast(messageCount'[c], CHAT_LIMIT)]_vars

\* C5: no step lowers the count stored under katha_chat_limit.
C5_StoredCountMonotonic ==
  [][\A o \in DOMAIN localStorage :
       LoadMessageCount(localStorage'[o]) >= StoredCount(o)]_vars

\* This step consumes a successful chat response of tab c: one call leaves
\* flight and the provider's text is appended as an Assistant message.
ChatSuccessConsumed(c) ==
  /\ Len(chatCalls'[c]) = Len(chatCalls[c]) - 1
  /\ Len(chatMessages'[c]) > Len(chatMessages[c])
  /\ \E t \in ResponseTexts :
       Truthy(t) /\ chatMessages'[c][Len(chatMessages[c]) + 1] = AiMessage(t)

\* This step consumes a successful one-shot response of tab c: the call
\* leaves flight and the suggestion is added to the draft.
AssistanceSuccessConsumed(c) ==
  /\ genCalls'[c] = genCalls[c] - 1
  /\ Len(content'[c]) > Len(content[c])

\* C6: the count is incremented by exactly 1 for each successful AI response
\* consumed in Restricted mode, from a chat turn or from the one-shot
\* assistance, and is never incremented in Owner mode.
C6_CountedPerSuccess ==
  [][\A c \in Clients :
       /\ (isSharedUrl(c) /\ (ChatSuccessConsumed(c) \/ AssistanceSuccessConsumed(c))) =>
            messageCount'[c] = messageCount[c] + 1
       /\ ~isSharedUrl(c) => messageCount'[c] <= messageCount[c]]_vars

\* C7: every non-blank submit in state Idle appends the User message with the
\* submitted text at once and enters Sending, whatever the turn's outcome.
C7_UserMessageFirst ==
  [][\A c \in Clients :
       (ClickSend(c) /\ trim(chatInput[c]) # <<>> /\ ~isChatLoading[c]) =>
         /\ Len(chatMessages'[c]) > Len(chatMessages[c])
         /\ chatMessages'[c][Len(chatMessages[c]) + 1] = UserMessage(chatInput[c])
         /\ isChatLoading'[c]]_vars

\* C8: in Restricted mode on an authorized origin with count >= limit, a
\* non-blank submit extends the transcript by exactly User(text) and then the
\* limit-reached message, dispatches no call and leaves the count unchanged.
C8_LimitReachedTurn ==
  [][\A c \in Clients :
       ( /\ SubmitChat(c)
         /\ trim(chatInput[c]) # <<>>
         /\ isSharedUrl(c)
         /\ isUrlAuthorized(c)
         /\ AtLeast(messageCount[c], CHAT_LIMIT) ) =>
         /\ chatMessages'[c] =
              chatMessages[c] \o <<UserMessage(chatInput[c]), AiMessage(LimitReachedText)>>
         /\ ~ChatDispatched(c)
         /\ messageCount'[c] = messageCount[c]
         /\ localStorage' = localStorage]_vars

\* C9: when isUrlAuthorized is false, a non-blank chat submit appends the
\* Assistant not-authorized message, dispatches no provider call and leaves
\* the count unchanged, in memory and in storage.
C9_UnauthorizedTurn ==
  [][\A c \in Clients :
       (SubmitChat(c) /\ trim(chatInput[c]) # <<>> /\ ~isUrlAuthorized(c)) =>
         /\ chatMessages'[c] = Append(chatMessages[c], AiMessage(NotAuthorizedText))
         /\ ~ChatDispatched(c)
         /\ ~AssistanceDispatched(c)
         /\ messageCount' = messageCount
         /\ localStorage' = localStorage]_vars

\* C9 witness: a shared tab whose loaded configuration does not match its
\* origin has answered a submit with the not-authorized message; nothing is in
\* flight and nothing was counted.
C9_Witness ==
  /\ isSharedUrl("t1")
  /\ settingsFetch["t1"].stage = "none"
  /\ authorizedUrl["t1"] = DevLocation.origin
  /\ LastMessageIs("t1", AiMessage(NotAuthorizedText))
  /\ chatCalls["t1"] = <<>>
  /\ messageCount["t1"] = 0

\* C10: while the session is Sending no further submit takes effect (no User
\* message is appended, no call is dispatched), so at most one provider call
\* is outstanding per session in every reachable state.
C10_OneCallAtATime ==
  /\ [](\A c \in Clients : Len(chatCalls[c]) <= 1)
  /\ [][\A c \in Clients :
          isChatLoading[c] =>
            /\ ~ChatDispatched(c)
            /\ \/ Len(chatMessages'[c]) <= Len(chatMessages[c])
               \/ chatMessages'[c][Len(chatMessages[c]) + 1].role # "user"]_vars

\* C10 witness: while a call is in flight the user has typed the next message
\* and the transcript is short of its bound, so only the disabled button
\* stands between the submit and a second call.
C10_Witness ==
  /\ isChatLoading["t1"]
  /\ Len(chatCalls["t1"]) = 1
  /\ trim(chatInput["t1"]) # <<>>
  /\ ChatWithinBounds("t1")

\* The text is empty or white space only.
SpecBlank(text) == \A i \in 1..Len(text) : text[i] = " "

\* C11: submitting blank text (empty or white space only) leaves the message
\* sequence, the pending state and the quota count (in memory and stored)
\* unchanged and dispatches no provider call.
C11_BlankSubmitNoOp ==
  [][\A c \in Clients :
       (SubmitChat(c) /\ SpecBlank(chatInput[c])) =>
         /\ chatMessages'[c] = chatMessages[c]
         /\ isChatLoading'[c] = isChatLoading[c]
         /\ messageCount'[c] = messageCount[c]
         /\ localStorage' = localStorage
         /\ ~ChatDispatched(c)
         /\ ~AssistanceDispatched(c)]_vars

\* C11 witness: an authorized shared tab, idle after a completed turn and
\* below its limit, holds a white-space-only input on which a submit is
\* delivered: the transcript still ends with the previous reply.
C11_Witness ==
  /\ isSharedUrl("t1")
  /\ isUrlAuthorized("t1")
  /\ chatInput["t1"] = <<" ">>
  /\ ~isChatLoading["t1"]
  /\ chatCalls["t1"] = <<>>
  /\ messageCount["t1"] = 1
  /\ Len(chatMessages["t1"]) = 2
  /\ ENABLED SubmitChat("t1")

\* The message text holds the detail d of an error.
Mentions(text, d) == \E i \in 1..Len(text) : <<text[i]>> = d

\* C12: when the provider call of a chat turn fails with an error carrying
\* detail d, an Assistant message containing d is appended, the quota count
\* is unchanged in memory and in storage, and the session is Idle again.
C12_ProviderErrorTurn ==
  [][\A c \in Clients :
       \A i \in 1..Len(chatCalls[c]) :
         \A d \in ProviderErrors \ {Missing} :
           ChatRejected(c, i, d) =>
             /\ Len(chatMessages'[c]) = Len(chatMessages[c]) + 1
             /\ SubSeq(chatMessages'[c], 1, Len(chatMessages[c])) = chatMessages[c]
             /\ chatMessages'[c][Len(chatMessages'[c])].role = "ai"
             /\ Mentions(chatMessages'[c][Len(chatMessages'[c])].text, d)
             /\ messageCount' = messageCount
             /\ localStorage' = localStorage
             /\ ~isChatLoading'[c]]_vars

\* C12 witness: a shared tab that has one counted reply has had its second
\* turn fail with "timeout": the error message is last, the count is still
\* 1 in memory and in storage, and the session is Idle.
C12_Witness ==
  /\ isSharedUrl("t1")
  /\ LastMessageIs("t1", AiMessage(ChatErrorText(<<"timeout">>)))
  /\ Len(chatMessages["t1"]) = 4
  /\ messageCount["t1"] = 1
  /\ Stored("t1") = toString(1)
  /\ ~isChatLoading["t1"]
  /\ chatCalls["t1"] = <<>>

\* C13: when the provider call of a chat turn succeeds with empty or missing
\* text, an Assistant-role message is appended for that turn, the quota count
\* is not incremented, and the session is Idle again.
C13_EmptyResponseTurn ==
  [][\A c \in Clients :
       \A i \in 1..Len(chatCalls[c]) :
         \A aiText \in ResponseTexts :
           (~Truthy(aiText) /\ ChatResolved(c, i, aiText, TRUE)) =>
             /\ Len(chatMessages'[c]) = Len(chatMessages[c]) + 1
             /\ chatMessages'[c][Len(chatMessages'[c])].role = "ai"
             /\ messageCount' = messageCount
             /\ localStorage' = localStorage
             /\ ~isChatLoading'[c]]_vars

\* C14: if localStorage.setItem fails after a successful response in
\* Restricted mode, the turn completes as a success: the transcript gains only
\* the provider's reply, the in-memory count goes up by 1, and the session is
\* Idle again.
C14_WriteFailureIsSilent ==
  [][\A c \in Clients :
       \A i \in 1..Len(chatCalls[c]) :
         \A aiText \in ResponseTexts :
           (isSharedUrl(c) /\ Truthy(aiText) /\ ChatResolved(c, i, aiText, FALSE)) =>
             /\ chatMessages'[c] = Append(chatMessages[c], AiMessage(aiText))
             /\ messageCount'[c] = messageCount[c] + 1
             /\ ~isChatLoading'[c]]_vars

\* The stored value is a decimal numeral.
SpecNumeral(v) ==
  /\ v # Missing
  /\ Len(v) > 0
  /\ \A i \in 1..Len(v) : v[i] \in {"0", "1", "2", "3", "4", "5", "6", "7", "8", "9"}

\* C15: the count a tab holds is loaded from storage at startup and is 0
\* whenever the stored value is absent or unparsable; a Restricted-mode tab
\* is never in a state whose count is no number, on which the limit check
\* could not become exhausted.
C15_UnparsableLoadsZero ==
  [][\A c \in Clients :
       /\ isSharedUrl(c) => (messageCount[c] # NaN /\ messageCount'[c] # NaN)
       /\ (Reload(c) /\ ~SpecNumeral(Stored(c))) => messageCount'[c] = 0]_vars

\* How many messages of the transcript have the given role.
NumWithRole(msgs, role) == Cardinality({i \in 1..Len(msgs) : msgs[i].role = role})

\* How many messages of the transcript refuse a submit (not authorized, limit
\* reached).
NumRefusals(msgs) ==
  Cardinality({i \in 1..Len(msgs) :
                 msgs[i] \in {AiMessage(NotAuthorizedText), AiMessage(LimitReachedText)}})

\* C16: every accepted (non-blank) chat turn produces exactly one Assistant
\* message: once every turn has completed, each submission that was sent to
\* the provider (a User message) has exactly one Assistant message besides
\* those of the refused submissions.
C16_OneAssistantPerTurn ==
  \A c \in Clients :
    chatCalls[c] = <<>> =>
      NumWithRole(chatMessages[c], "ai") - NumRefusals(chatMessages[c])
        = NumWithRole(chatMessages[c], "user")

\* C17: whenever the chat session is Sending it is eventually Idle again,
\* given that the provider call eventually resolves or rejects: success, empty
\* response, provider error and a failure while recording the quota all end
\* the Sending state.
C17_SendingReturnsToIdle ==
  \A c \in Clients : isChatLoading[c] ~> ~isChatLoading[c]

\* C17 witness: a turn of a shared tab whose localStorage.setItem threw has
\* ended: the error message is last and the session is Idle with no call in
\* flight.
C17_Witness ==
  /\ isSharedUrl("t1")
  /\ LastMessageIs("t1", AiMessage(ChatErrorText(StorageError)))
  /\ Stored("t1") = Missing
  /\ chatCalls["t1"] = <<>>
  /\ ~isChatLoading["t1"]

\* C18: in Owner mode, whatever count the storage held at startup (at or
\* above the limit included), a non-blank chat submit is never refused for
\* quota (the send button is not disabled for it, the submit appends the User
\* message and dispatches the call) and the count is never incremented nor
\* written to storage.
C18_OwnerQuotaFree ==
  [][\A c \in Clients :
       ~SpecRestricted(location[c]) =>
         /\ (~SpecBlank(chatInput[c]) /\ ~isChatLoading[c]) => ~SendDisabled(c)
         /\ (SubmitChat(c) /\ ~SpecBlank(chatInput[c])) =>
              /\ chatMessages'[c] = Append(chatMessages[c], UserMessage(chatInput[c]))
              /\ ChatDispatched(c)
         /\ messageCount'[c] = messageCount[c]
         /\ localStorage'[location[c].origin] = localStorage[location[c].origin]]_vars

\* C18 witness: an owner tab that started on a stored count of 5 has sent a
\* message and received the reply; count and storage are as they were.
C18_Witness ==
  /\ ~SpecRestricted(location["t1"])
  /\ Len(chatMessages["t1"]) = 2
  /\ LastMessageIs("t1", AiMessage(<<"ok">>))
  /\ messageCount["t1"] = 5
  /\ Stored("t1") = <<"5">>

\* C19: after a settings write has changed the stored authorized URL, the
\* next authorization check of every running client uses the new value: no
\* AI call is dispatched by a client that the stored configuration does not
\* authorize.
C19_NoStaleAuthorization ==
  [][\A c \in Clients :
       (ChatDispatched(c) \/ AssistanceDispatched(c)) =>
         isUrlAuthorizedFor(isSharedUrl(c), dbUrl, location[c])]_vars

\* C20: a failed settings read and a failed settings write leave the client's
\* authorized URL at its prior value; a failed read never makes
\* isUrlAuthorized true where it was false.
C20_FailedSettingsKeepPrior ==
  [][\A c \in Clients :
       (FetchSettingsFail(c) \/ SaveSettingsFail(c)) =>
         /\ authorizedUrl'[c] = authorizedUrl[c]
         /\ isUrlAuthorized(c)' => isUrlAuthorized(c)]_vars

\* C20 witness: the settings read of a shared tab has failed although the
\* server holds the tab's own origin as the authorized URL: the tab's
\* authorized URL is still empty and its submit was answered with the
\* not-authorized message.
C20_Witness ==
  /\ isSharedUrl("t1")
  /\ dbUrl = SharedUrlTyped
  /\ settingsFetch["t1"].stage = "none"
  /\ authorizedUrl["t1"] = <<>>
  /\ ~isUrlAuthorized("t1")
  /\ LastMessageIs("t1", AiMessage(NotAuthorizedText))

\* C21: each accepted chat turn and each one-shot assistance request
\* dispatches exactly one provider call, in the step that accepts it, and a
\* failed call is never sent again: the step that handles the failure takes
\* the call out of flight and puts none in its place.
C21_OneAttemptPerRequest ==
  [][\A c \in Clients :
       /\ ChatDispatched(c) =>
            /\ Len(chatCalls'[c]) = Len(chatCalls[c]) + 1
            /\ ~SpecBlank(chatInput[c])
            /\ chatMessages'[c] = Append(chatMessages[c], UserMessage(chatInput[c]))
       /\ AssistanceDispatched(c) =>
            /\ genCalls'[c] = genCalls[c] + 1
            /\ ~isGenerating[c]
            /\ title[c] # <<>> \/ content[c] # <<>>
       /\ \A i \in 1..Len(chatCalls[c]) :
            \A d \in ProviderErrors :
              ChatRejected(c, i, d) => chatCalls'[c] = RemoveAt(chatCalls[c], i)
       /\ GenerateReject(c) => genCalls'[c] = genCalls[c] - 1]_vars

\* C21 witness: the first turn of a shared tab has failed and the user has
\* submitted again: the error message is in the transcript and the only call
\* in flight is the one of the second submission.
C21_Witness ==
  /\ isSharedUrl("t1")
  /\ Len(chatMessages["t1"]) = 3
  /\ chatMessages["t1"][2] = AiMessage(ChatErrorText(<<"timeout">>))
  /\ chatMessages["t1"][3].role = "user"
  /\ Len(chatCalls["t1"]) = 1
  /\ genCalls["t1"] = 0

\* The text of the last User message of a transcript that has one.
LastUserText(msgs) ==
  LET last == CHOOSE i \in 1..Len(msgs) :
                /\ msgs[i].role = "user"
                /\ \A j \in (i + 1)..Len(msgs) : msgs[j].role # "user"
  IN  msgs[last].text

\* C22: the transcript of a conversation is append-only and causally ordered:
\* short of a reload, which discards the conversation, every step leaves the
\* messages it found in place and adds new ones only at the end; a User
\* message is added only when no earlier turn still awaits its answer, and
\* the answer of a call is added while that call's User message is the last
\* User message.
C22_AppendOnlyCausal ==
  [][\A c \in Clients :
       \/ Reload(c)
       \/ /\ SpecPrefix(chatMessages[c], chatMessages'[c])
          /\ \A k \in (Len(chatMessages[c]) + 1)..Len(chatMessages'[c]) :
               chatMessages'[c][k].role = "user" =>
                 /\ chatCalls[c] = <<>>
                 /\ k = Len(chatMessages'[c])
          /\ \A i \in 1..Len(chatCalls[c]) :
               (chatCalls'[c] = RemoveAt(chatCalls[c], i)
                  /\ Len(chatMessages'[c]) > Len(chatMessages[c])) =>
                 /\ NumWithRole(chatMessages[c], "user") > 0
                 /\ LastUserText(chatMessages[c]) = chatCalls[c][i].userMessage
                 /\ chatMessages'[c][Len(chatMessages[c]) + 1].role = "ai"]_vars

\* C22 witness: two turns of a shared tab have completed, the first with a
\* reply and the second with an error: the transcript reads User, Assistant,
\* User, Assistant.
C22_Witness ==
  /\ isSharedUrl("t1")
  /\ Len(chatMessages["t1"]) = 4
  /\ chatMessages["t1"][1].role = "user"
  /\ chatMessages["t1"][2] = AiMessage(<<"ok">>)
  /\ chatMessages["t1"][3].role = "user"
  /\ chatMessages["t1"][4] = AiMessage(ChatErrorText(Missing))
  /\ chatCalls["t1"] = <<>>

\* The larger of two integers.
SpecMax(a, b) == IF a >= b THEN a ELSE b

\* C23: in Restricted mode the remaining-messages figure, wherever it is
\* shown, is max(0, limit - count) and not negative: it is shown only while
\* count < limit, and for count >= limit the limit-reached line is shown
\* instead.
C23_RemainingNeverNegative ==
  \A c \in Clients :
    SpecRestricted(location[c]) =>
      /\ RemainingShown(c) =>
           /\ messageCount[c] # NaN
           /\ messageCount[c] < CHAT_LIMIT
           /\ RemainingFigure(c) = SpecMax(0, CHAT_LIMIT - messageCount[c])
           /\ RemainingFigure(c) >= 0
      /\ (messageCount[c] # NaN /\ messageCount[c] >= CHAT_LIMIT) =>
           /\ LimitReachedShown(c)
           /\ ~RemainingShown(c)

\* C23 witness: a shared tab that started on a stored count of 2 has received
\* one more reply: the count is 3 in memory and in storage and the
\* limit-reached line has replaced the remaining-messages line.
C23_Witness ==
  /\ isSharedUrl("t1")
  /\ LastMessageIs("t1", AiMessage(<<"ok">>))
  /\ messageCount["t1"] = CHAT_LIMIT
  /\ Stored("t1") = toString(CHAT_LIMIT)
  /\ LimitReachedShown("t1")
  /\ ~RemainingShown("t1")

\* C24: in Restricted mode the count, in memory and as stored, stays within
\* 0..limit in every reachable state, also when several chat calls
\* dispatched from the same rendered state resolve in any order.
C24_CountWithinLimit ==
  \A c \in Clients :
    SpecRestricted(location[c]) =>
      /\ messageCount[c] \in 0..CHAT_LIMIT
      /\ StoredCount(location[c].origin) \in 0..CHAT_LIMIT

\* C24 witness: in a shared tab two submissions went out before either was
\* answered and both replies have arrived; the count has reached the limit,
\* in memory and in storage, and not passed it.
C24_Witness ==
  /\ isSharedUrl("t1")
  /\ Len(chatMessages["t1"]) = 4
  /\ chatMessages["t1"][1].role = "user"
  /\ chatMessages["t1"][2].role = "user"
  /\ chatMessages["t1"][3] = AiMessage(<<"ok">>)
  /\ chatMessages["t1"][4] = AiMessage(<<"ok">>)
  /\ chatCalls["t1"] = <<>>
  /\ messageCount["t1"] = CHAT_LIMIT
  /\ Stored("t1") = toString(CHAT_LIMIT)

\* C25: a like response changes, in the client's displayed list, the story
\* it is about and no other: every other story keeps the like count it
\* showed, so none falls back to an older count.
C25_LikeKeepsOtherStories ==
  [][\A c \in Clients :
       \A k \in 1..Len(likeCalls[c]) :
         LikeDone(c, k) =>
           \A j \in 1..Len(stories[c]) :
             stories[c][j].id # likeCalls[c][k].id =>
               /\ j <= Len(stories'[c])
               /\ stories'[c][j] = stories[c][j]]_vars

====
